---- MODULE Spec2Model ----
(***************************************************************************)
(* Model of lib/lib_sysconfig.py: the boot-resource tracker                *)
(* (BootResourceState) and the per-domain procedures of SysConfigHelper.   *)
(*                                                                         *)
(* Time is counted in integer clock ticks since the epoch of the model.    *)
(* A datetime is a tick count; the float kept in the unit's key-value      *)
(* store is a count of finer units carrying a representation error.        *)
(***************************************************************************)
EXTENDS Integers, Sequences, FiniteSets, TLC

(***************************************************************************)
(* Bounds of the model                                                     *)
(***************************************************************************)
\* ticks per unit of resolution of the first field of /proc/uptime
UptimeGranule == 2
\* ticks the clock may advance beyond two boot periods
ExtraTicks == 1
\* float units per clock tick
FloatScale == 4
\* longest list handed to resources_changed_since_boot
MaxNames == 2
\* most options of the charm's configuration the operator has set at a time
MaxOptions == 1

MaxTime == 2 * UptimeGranule + ExtraTicks

(***************************************************************************)
(* Module constants, lib_sysconfig.py lines 14-22                          *)
(***************************************************************************)
CPUFREQUTILS_TMPL == "cpufrequtils.j2"
GRUB_CONF_TMPL == "grub.j2"
SYSTEMD_SYSTEM_TMPL == "etc.systemd.system.conf.j2"
CPUFREQUTILS == "/etc/default/cpufrequtils"
GRUB_CONF == "/etc/default/grub.d/90-sysconfig.cfg"
SYSTEMD_SYSTEM == "/etc/systemd/system.conf"
KERNEL == "kernel"

GRUB_DEFAULT(v) == "Advanced options for Ubuntu>Ubuntu, with Linux " \o v

\* datetime.min: earlier than every instant the clock can show
DatetimeMin == -1

VARIABLES
    now,          \* datetime.now(timezone.utc), in ticks
    bootInstant,  \* the instant the running kernel was started
    db,           \* unitdata.kv(): key -> float, absent keys are None
    recorded,     \* history: resource name -> clock reading of its last set_resource
    op,           \* the operation that ran last
    names,        \* the argument of the last tracker operation
    boot_ts,      \* boot_ts of the last resources_changed_since_boot
    changed,      \* the list the last resources_changed_since_boot returned
    charm_config, \* hookenv.config()
    running,      \* os.uname().release
    is_container, \* host.is_container()
    codename,     \* host.get_distrib_codename()
    files,        \* the managed paths for which os.path.exists holds
    installed,    \* the packages apt_install has installed
    trace,        \* the calls the last procedure made, in order
    outcome       \* how the last procedure ended: "returned" or "raised"

tracker == <<db, recorded>>
query == <<names, boot_ts, changed>>
host == <<running, is_container, codename>>
effects == <<files, installed, trace, outcome>>
engine == <<charm_config, host, effects>>

vars == <<now, bootInstant, tracker, op, query, engine>>

(***************************************************************************)
(* datetime <-> float                                                      *)
(***************************************************************************)
\* representation error of the float nearest to a datetime
RoundOff(t) == (t % 3) - 1

\* datetime.timestamp()
timestamp(t) == t * FloatScale + RoundOff(t)

\* a conversion that truncates the float instead of rounding it
fromtimestamp_truncating(f) == f \div FloatScale

\* datetime.fromtimestamp(tfloat, timezone.utc): round half to even
fromtimestamp(f) ==
    LET q == f \div FloatScale
        r == f % FloatScale
    IN  IF 2 * r < FloatScale THEN q
        ELSE IF 2 * r > FloatScale THEN q + 1
        ELSE IF q % 2 = 0 THEN q ELSE q + 1

(***************************************************************************)
(* boot_time(), lines 45-50                                                *)
(***************************************************************************)
\* an uptime rounded up to the resolution of /proc/uptime
uptime_seconds_rounded_up ==
    ((now - bootInstant + UptimeGranule - 1) \div UptimeGranule) * UptimeGranule

\* float(f.readline().split()[0]): the uptime the kernel prints, truncated
\* to the resolution of /proc/uptime
uptime_seconds == ((now - bootInstant) \div UptimeGranule) * UptimeGranule

\* a boot time that forgets to subtract the uptime
boot_time_without_uptime == now

boot_time == now - uptime_seconds

(***************************************************************************)
(* BootResourceState, lines 53-90                                          *)
(***************************************************************************)
\* a key that does not contain the name of the resource
key_for_shared(resource_name) == "sysconfig.boot_resource"

key_for(resource_name) == "sysconfig.boot_resource." \o resource_name

\* the store after set_resource(resource_name)
set_resource(store, resource_name) ==
    LET key == key_for(resource_name)
    IN  [k \in DOMAIN store \cup {key} |->
            IF k = key THEN timestamp(now) ELSE store[k]]

\* an unregistered resource reported as changed at the end of time
get_resource_changed_timestamp_max(resource_name) ==
    IF key_for(resource_name) \in DOMAIN db
    THEN fromtimestamp(db[key_for(resource_name)])
    ELSE MaxTime + 1

get_resource_changed_timestamp(resource_name) ==
    IF key_for(resource_name) \in DOMAIN db
    THEN fromtimestamp(db[key_for(resource_name)])
    ELSE DatetimeMin

RECURSIVE changed_names(_, _)
\* [name for name in resource_names if boot_ts < ...timestamp(name)]
changed_names(bts, resource_names) ==
    IF resource_names = << >> THEN << >>
    ELSE LET name == Head(resource_names)
             rest == changed_names(bts, Tail(resource_names))
         IN  IF bts < get_resource_changed_timestamp(name)
             THEN <<name>> \o rest
             ELSE rest

RECURSIVE changed_names_inclusive(_, _)
\* the comprehension with boot_ts <= ... in place of boot_ts < ...
changed_names_inclusive(bts, resource_names) ==
    IF resource_names = << >> THEN << >>
    ELSE LET name == Head(resource_names)
             rest == changed_names_inclusive(bts, Tail(resource_names))
         IN  IF bts <= get_resource_changed_timestamp(name)
             THEN <<name>> \o rest
             ELSE rest

resources_changed_since_boot_inclusive(resource_names) ==
    changed_names_inclusive(boot_time, resource_names)

resources_changed_since_boot(resource_names) ==
    changed_names(boot_time, resource_names)

(***************************************************************************)
(* Inputs                                                                  *)
(***************************************************************************)
ResourceNames == {GRUB_CONF, SYSTEMD_SYSTEM, CPUFREQUTILS, KERNEL}

\* the names the tracker is driven with directly
TrackerNames == {GRUB_CONF, KERNEL}

NameLists == UNION {[1..n -> TrackerNames] : n \in 0..MaxNames}

NoHistory == [n \in {} |-> 0]

\* kernel releases a host of the model can run
KERNEL_OLD == "5.15.0-50-generic"
KERNEL_NEW == "5.15.0-99-generic"
Kernels == {KERNEL_OLD, KERNEL_NEW}

\* a context without keys: {}
NoContext == [k \in {} |-> ""]

\* the charm's configuration when the operator has set nothing
DefaultConfig ==
    [k \in {"cpu-range", "hugepages", "hugepagesz",
            "raid-autodetection", "kernel-version", "governor"} |-> ""]
    @@ ("reservation" :> "off")
    @@ [k \in {"enable-pti", "enable-iommu", "update-grub"} |-> FALSE]
    @@ [k \in {"grub-config-flags", "systemd-config-flags"} |-> << >>]

Knobs == DOMAIN DefaultConfig

\* the text a,b=1, c=2=3 and the text x = y, character by character
FLAGS_TEXT == <<"a", ",", "b", "=", "1", ",", " ", "c", "=", "2", "=", "3">>
FLAGS_TEXT_SPACED == <<"x", " ", "=", " ", "y">>

\* the values the operator can give each option
KnobValues(k) ==
    CASE k = "reservation" -> {"off", "isolcpus", "affinity", "bogus"}
      [] k = "cpu-range" -> {"", "0-3"}
      [] k = "hugepages" -> {"", "100"}
      [] k = "hugepagesz" -> {"", "1G"}
      [] k = "raid-autodetection" -> {"", "noautodetect", "partitionable", "raid5"}
      [] k = "kernel-version" -> {""} \cup Kernels
      [] k = "governor" -> {"", "powersave", "performance", "eco"}
      [] k \in {"enable-pti", "enable-iommu", "update-grub"} -> BOOLEAN
      [] k = "grub-config-flags" -> {<< >>, FLAGS_TEXT}
      [] k = "systemd-config-flags" -> {<< >>, FLAGS_TEXT_SPACED}

\* the options of c the operator has set
OptionsSet(c) == {k \in Knobs : c[k] # DefaultConfig[k]}

(***************************************************************************)
(* Initial state: a freshly deployed unit on a host that has been up for   *)
(* one uptime granule                                                      *)
(***************************************************************************)
Init ==
    /\ bootInstant = 0
    /\ now = UptimeGranule
    /\ db = [k \in {} |-> 0]
    /\ recorded = NoHistory
    /\ op = "none"
    /\ names = << >>
    /\ boot_ts = 0
    /\ changed = << >>
    /\ charm_config = DefaultConfig
    /\ running = KERNEL_OLD
    /\ is_container = FALSE
    /\ codename = "bionic"
    /\ files = {SYSTEMD_SYSTEM}
    /\ installed = {}
    /\ trace = << >>
    /\ outcome = "returned"

(***************************************************************************)
(* Environment                                                             *)
(***************************************************************************)
\* the clock advances
Tick ==
    /\ now < MaxTime
    /\ now' = now + 1
    /\ UNCHANGED <<bootInstant, tracker, op, query, engine>>

\* the host reboots into kernel k; the unit's hooks run again once
\* userspace is up
RebootInto(k) ==
    /\ now + UptimeGranule <= MaxTime
    /\ bootInstant' = now
    /\ now' = now + UptimeGranule
    /\ running' = k
    /\ op' = "reboot"
    /\ names' = << >>
    /\ changed' = << >>
    /\ boot_ts' = 0
    /\ trace' = << >>
    /\ outcome' = "returned"
    /\ UNCHANGED <<tracker, charm_config, is_container, codename, files, installed>>

Reboot == RebootInto(running)

(***************************************************************************)
(* Tracker operations                                                      *)
(***************************************************************************)
SetResource(d) ==
    /\ db' = set_resource(db, d)
    /\ recorded' = [n \in DOMAIN recorded \cup {d} |->
                        IF n = d THEN now ELSE recorded[n]]
    /\ op' = "set_resource"
    /\ names' = <<d>>
    /\ changed' = << >>
    /\ boot_ts' = 0
    /\ UNCHANGED <<now, bootInstant, engine>>

ResourcesChangedSinceBoot(l) ==
    /\ op' = "resources_changed_since_boot"
    /\ names' = l
    /\ boot_ts' = boot_time
    /\ changed' = resources_changed_since_boot(l)
    /\ UNCHANGED <<now, bootInstant, tracker, engine>>

RecordChange == \E d \in TrackerNames : SetResource(d)

ChangedSinceBoot == \E l \in NameLists : ResourcesChangedSinceBoot(l)

NextTracker == Tick \/ Reboot \/ RecordChange \/ ChangedSinceBoot

SpecTracker == Init /\ [][NextTracker]_vars

(***************************************************************************)
(* Properties of the tracker                                               *)
(***************************************************************************)
Queried == op = "resources_changed_since_boot"

Elems(l) == {l[i] : i \in 1..Len(l)}

NeverRecorded(d) == d \notin DOMAIN recorded

\* the clock reading of the last set_resource(d), datetime.min if there was none
LastRecorded(d) == IF NeverRecorded(d) THEN DatetimeMin ELSE recorded[d]

\* C1 as claimed: a resource that was never recorded is always among the
\* names resources_changed_since_boot returns for a list containing it.
C1_NeverRecordedAlwaysIncluded ==
    Queried =>
        \A d \in Elems(names) : NeverRecorded(d) => d \in Elems(changed)

\* C1 amended: a resource that was never recorded is never among the names
\* resources_changed_since_boot returns, whatever the (finite) boot time.
C1_NeverRecordedNeverIncluded ==
    Queried =>
        \A d \in Elems(names) : NeverRecorded(d) => d \notin Elems(changed)

\* a query over a recorded and a never recorded resource returned only the
\* recorded one
C1_Witness ==
    /\ Queried
    /\ changed # << >>
    /\ \E d \in Elems(names) : NeverRecorded(d)

\* C2: get_resource_changed_timestamp returns datetime.min for a resource
\* that was never recorded and otherwise exactly the clock reading of the
\* most recent set_resource of that resource.
C2_LastChangedIsLastRecorded ==
    \A d \in ResourceNames :
        get_resource_changed_timestamp(d) = LastRecorded(d)

\* one resource recorded again after the first record, another never recorded
C2_Witness ==
    /\ op = "set_resource"
    /\ \E d \in TrackerNames : NeverRecorded(d)
    /\ \E d \in DOMAIN recorded :
          /\ recorded[d] > UptimeGranule
          /\ get_resource_changed_timestamp(d) = now

\* C3: set_resource(d) followed by resources_changed_since_boot([d]) before
\* any reboot returns [d].
C3_RecordThenQuery ==
    [][(/\ op = "set_resource"
        /\ op' = "resources_changed_since_boot"
        /\ names' = names) => changed' = names]_vars

\* a query of the single resource recorded at this very clock reading
\* returned it
C3_Witness ==
    /\ Queried
    /\ Len(names) = 1
    /\ ~NeverRecorded(names[1])
    /\ recorded[names[1]] = now
    /\ changed = names

\* C4: resources_changed_since_boot returns exactly the input names whose
\* last change is strictly later than the boot time computed by the call,
\* in input order, and nothing else.
C4_ExactlyTheLaterOnes ==
    Queried =>
        changed = SelectSeq(names, LAMBDA n : boot_ts < LastRecorded(n))

\* a query of two resources: the first was recorded exactly at the boot time
\* the call computed and is left out, the second was recorded later
C4_Witness ==
    /\ Queried
    /\ Len(names) = 2
    /\ ~NeverRecorded(names[1])
    /\ recorded[names[1]] = boot_ts
    /\ changed = <<names[2]>>
    /\ names[2] # names[1]

(***************************************************************************)
(* parse_config_flags, lines 25-37, on texts given character by character  *)
(***************************************************************************)
RECURSIVE join(_)
\* the string made of the characters of chars
join(chars) == IF chars = << >> THEN "" ELSE Head(chars) \o join(Tail(chars))

RECURSIVE split(_, _)
\* str.split(sep)
split(text, sep) ==
    IF \E i \in 1..Len(text) : text[i] = sep
    THEN LET i == CHOOSE j \in 1..Len(text) :
                      /\ text[j] = sep
                      /\ \A h \in 1..(j - 1) : text[h] # sep
         IN  <<SubSeq(text, 1, i - 1)>> \o split(SubSeq(text, i + 1, Len(text)), sep)
    ELSE <<text>>

RECURSIVE parsed_pairs(_, _)
\* the loop of lines 34-36 over key_value_pairs, starting from the dict parsed
parsed_pairs(key_value_pairs, parsed) ==
    IF key_value_pairs = << >> THEN parsed
    ELSE LET pair == Head(key_value_pairs)
             key == join(split(pair, "=")[1])
         IN  IF \E i \in 1..Len(pair) : pair[i] = "="
             THEN parsed_pairs(Tail(key_value_pairs),
                      [k \in DOMAIN parsed \cup {key} |->
                          IF k = key THEN join(split(pair, "=")[2]) ELSE parsed[k]])
             ELSE parsed_pairs(Tail(key_value_pairs), parsed)

parse_config_flags(config_flags) ==
    parsed_pairs(split(SelectSeq(config_flags, LAMBDA c : c # " "), ","), NoContext)

(***************************************************************************)
(* SysConfigHelper: the configuration properties, lines 107-165            *)
(***************************************************************************)
reservation == charm_config["reservation"]
cpu_range == charm_config["cpu-range"]
hugepages == charm_config["hugepages"]
hugepagesz == charm_config["hugepagesz"]
raid_autodetection == charm_config["raid-autodetection"]
enable_pti == charm_config["enable-pti"]
enable_iommu == charm_config["enable-iommu"]
grub_config_flags == parse_config_flags(charm_config["grub-config-flags"])
systemd_config_flags == parse_config_flags(charm_config["systemd-config-flags"])
kernel_version == charm_config["kernel-version"]
update_grub == charm_config["update-grub"]
governor == charm_config["governor"]

running_kernel == running

(***************************************************************************)
(* The calls a procedure makes to its collaborators and to the tracker     *)
(***************************************************************************)
Call(c, t, ctx, a) ==
    [call |-> c, target |-> t, context |-> ctx, argv |-> a, ok |-> TRUE]

render(source, target, context) == Call("render", target, context, <<source>>)
record(resource_name) == Call("set_resource", resource_name, NoContext, << >>)
apt_update == Call("apt_update", "", NoContext, << >>)
apt_install(pkgs) == Call("apt_install", "", NoContext, pkgs)
check_call(argv) == Call("check_call", "", NoContext, argv)
service_restart(service) == Call("service_restart", service, NoContext, << >>)
os_remove(path) == Call("os.remove", path, NoContext, << >>)

UPDATE_GRUB == <<"/usr/sbin/update-grub">>
ONDEMAND_REMOVE ==
    <<"/usr/sbin/update-rc.d", "-f", "ondemand", "remove", ">", "/dev/null", "2>&1">>
ONDEMAND_DEFAULTS ==
    <<"/usr/sbin/update-rc.d", "-f", "ondemand", "defaults", ">", "/dev/null", "2>&1">>

\* the calls that reach outside the process and can raise
CanRaise(e) ==
    e.call \in {"render", "apt_update", "apt_install", "check_call", "service_restart"}

\* the entry key |-> value if cond holds, nothing otherwise
Entry(cond, key, value) == IF cond THEN key :> value ELSE NoContext

(***************************************************************************)
(* SysConfigHelper: the procedures, lines 167-328, as the calls they make  *)
(***************************************************************************)
\* a render that does not set the resource as changed
_render_boot_resource_unrecorded(source, target, context) ==
    <<render(source, target, context)>>

_render_boot_resource(source, target, context) ==
    <<render(source, target, context), record(target)>>

\* a check that compares the configured version with the name of the
\* image package of the running kernel
_is_kernel_already_running_by_package ==
    kernel_version = "linux-image-" \o running_kernel

_is_kernel_already_running == kernel_version = running_kernel

\* update-grub run inside containers too
_update_grub_in_containers ==
    IF update_grub THEN <<check_call(UPDATE_GRUB)>> ELSE << >>

_update_grub ==
    IF update_grub /\ ~is_container THEN <<check_call(UPDATE_GRUB)>> ELSE << >>

is_config_valid ==
    /\ reservation \in {"off", "isolcpus", "affinity"}
    /\ raid_autodetection \in {"", "noautodetect", "partitionable"}
    /\ governor \in {"", "powersave", "performance"}

\* the context when the pin is written only as long as the file is not there
grub_context_pinned_once ==
    Entry(reservation = "isolcpus", "cpu_range", cpu_range)
    @@ Entry(hugepages # "", "hugepages", hugepages)
    @@ Entry(hugepagesz # "", "hugepagesz", hugepagesz)
    @@ Entry(raid_autodetection # "", "raid", raid_autodetection)
    @@ Entry(~enable_pti, "pti_off", TRUE)
    @@ Entry(enable_iommu, "iommu", TRUE)
    @@ ("grub_config_flags" :> grub_config_flags)
    @@ Entry(kernel_version # "" /\ ~_is_kernel_already_running /\ GRUB_CONF \notin files,
             "grub_default", GRUB_DEFAULT(kernel_version))

\* the context when the pin is written whenever a version is configured
grub_context_always_pinned ==
    Entry(reservation = "isolcpus", "cpu_range", cpu_range)
    @@ Entry(hugepages # "", "hugepages", hugepages)
    @@ Entry(hugepagesz # "", "hugepagesz", hugepagesz)
    @@ Entry(raid_autodetection # "", "raid", raid_autodetection)
    @@ Entry(~enable_pti, "pti_off", TRUE)
    @@ Entry(enable_iommu, "iommu", TRUE)
    @@ ("grub_config_flags" :> grub_config_flags)
    @@ Entry(kernel_version # "", "grub_default", GRUB_DEFAULT(kernel_version))

\* the context of lines 210-227
grub_context ==
    Entry(reservation = "isolcpus", "cpu_range", cpu_range)
    @@ Entry(hugepages # "", "hugepages", hugepages)
    @@ Entry(hugepagesz # "", "hugepagesz", hugepagesz)
    @@ Entry(raid_autodetection # "", "raid", raid_autodetection)
    @@ Entry(~enable_pti, "pti_off", TRUE)
    @@ Entry(enable_iommu, "iommu", TRUE)
    @@ ("grub_config_flags" :> grub_config_flags)
    @@ Entry(kernel_version # "" /\ ~_is_kernel_already_running,
             "grub_default", GRUB_DEFAULT(kernel_version))

\* an update that runs update-grub before it sets the resource as changed
update_grub_file_regenerating_first ==
    <<render(GRUB_CONF_TMPL, GRUB_CONF, grub_context)>>
    \o _update_grub
    \o <<record(GRUB_CONF)>>

update_grub_file ==
    _render_boot_resource(GRUB_CONF_TMPL, GRUB_CONF, grub_context) \o _update_grub

\* the context of lines 235-238
systemd_context ==
    Entry(reservation = "affinity", "cpu_range", cpu_range)
    @@ ("systemd_config_flags" :> systemd_config_flags)

\* an update that renders without setting the resource as changed
update_systemd_system_file_unrecorded ==
    <<render(SYSTEMD_SYSTEM_TMPL, SYSTEMD_SYSTEM, systemd_context)>>

update_systemd_system_file ==
    _render_boot_resource(SYSTEMD_SYSTEM_TMPL, SYSTEMD_SYSTEM, systemd_context)

\* an installation that leaves out the modules-extra package
install_configured_kernel_image_only ==
    IF kernel_version = "" \/ _is_kernel_already_running
    THEN << >>
    ELSE <<apt_update,
           apt_install(<<"linux-image-" \o kernel_version>>),
           record(KERNEL)>>

install_configured_kernel ==
    IF kernel_version = "" \/ _is_kernel_already_running
    THEN << >>
    ELSE <<apt_update,
           apt_install(<<"linux-image-" \o kernel_version,
                         "linux-modules-extra-" \o kernel_version>>),
           record(KERNEL)>>

\* update_cpufreq disabling ondemand for the performance governor only
update_cpufreq_performance_only ==
    IF governor \notin {"", "performance", "powersave"}
    THEN << >>
    ELSE _render_boot_resource(CPUFREQUTILS_TMPL, CPUFREQUTILS, "governor" :> governor)
         \o (IF codename = "xenial" /\ ~is_container
             THEN IF governor = "performance"
                  THEN <<check_call(ONDEMAND_REMOVE)>>
                  ELSE <<check_call(ONDEMAND_DEFAULTS)>>
             ELSE << >>)
         \o <<service_restart("cpufrequtils")>>

\* update_cpufreq without the check of line 261
update_cpufreq_unchecked ==
    _render_boot_resource(CPUFREQUTILS_TMPL, CPUFREQUTILS, "governor" :> governor)
    \o (IF codename = "xenial" /\ ~is_container
        THEN IF governor # ""
             THEN <<check_call(ONDEMAND_REMOVE)>>
             ELSE <<check_call(ONDEMAND_DEFAULTS)>>
        ELSE << >>)
    \o <<service_restart("cpufrequtils")>>

update_cpufreq ==
    IF governor \notin {"", "performance", "powersave"}
    THEN << >>
    ELSE _render_boot_resource(CPUFREQUTILS_TMPL, CPUFREQUTILS, "governor" :> governor)
         \o (IF codename = "xenial" /\ ~is_container
             THEN IF governor # ""
                  THEN <<check_call(ONDEMAND_REMOVE)>>
                  ELSE <<check_call(ONDEMAND_DEFAULTS)>>
             ELSE << >>)
         \o <<service_restart("cpufrequtils")>>

\* a removal without the check of line 288
remove_grub_configuration_unchecked ==
    <<os_remove(GRUB_CONF)>> \o _update_grub \o <<record(GRUB_CONF)>>

\* a removal that does not register the change
remove_grub_configuration_unrecorded ==
    IF GRUB_CONF \notin files
    THEN << >>
    ELSE <<os_remove(GRUB_CONF)>> \o _update_grub

remove_grub_configuration ==
    IF GRUB_CONF \notin files
    THEN << >>
    ELSE <<os_remove(GRUB_CONF)>> \o _update_grub \o <<record(GRUB_CONF)>>

remove_systemd_configuration ==
    _render_boot_resource(SYSTEMD_SYSTEM_TMPL, SYSTEMD_SYSTEM, NoContext)

remove_cpufreq_configuration ==
    (IF codename = "xenial" /\ ~is_container
     THEN <<check_call(ONDEMAND_DEFAULTS)>>
     ELSE << >>)
    \o _render_boot_resource(CPUFREQUTILS_TMPL, CPUFREQUTILS, NoContext)
    \o <<service_restart("cpufrequtils")>>

(***************************************************************************)
(* Running a procedure: its calls take effect in order until one raises    *)
(***************************************************************************)
\* the state after the call e has completed
Effect(st, e) ==
    CASE e.call = "render" -> [st EXCEPT !.files = @ \cup {e.target}]
      [] e.call = "os.remove" -> [st EXCEPT !.files = @ \ {e.target}]
      [] e.call = "apt_install" ->
            [st EXCEPT !.installed = @ \cup {e.argv[i] : i \in 1..Len(e.argv)}]
      [] e.call = "set_resource" ->
            [st EXCEPT !.db = set_resource(@, e.target),
                       !.recorded = [n \in DOMAIN @ \cup {e.target} |->
                                        IF n = e.target THEN now ELSE @[n]]]
      [] OTHER -> st

RECURSIVE Effects(_, _)
Effects(st, calls) ==
    IF calls = << >> THEN st ELSE Effects(Effect(st, Head(calls)), Tail(calls))

\* the procedure called procedure makes the calls of plan; the k-th call
\* raises, or none does (k = 0)
Run(procedure, plan) ==
    \E k \in 0..Len(plan) :
        /\ k > 0 => CanRaise(plan[k])
        /\ LET completed == IF k = 0 THEN plan ELSE SubSeq(plan, 1, k - 1)
               st == Effects([db |-> db, recorded |-> recorded,
                              files |-> files, installed |-> installed],
                             completed)
           IN  /\ db' = st.db
               /\ recorded' = st.recorded
               /\ files' = st.files
               /\ installed' = st.installed
               /\ trace' = IF k = 0 THEN plan
                           ELSE completed \o <<[plan[k] EXCEPT !.ok = FALSE]>>
               /\ outcome' = IF k = 0 THEN "returned" ELSE "raised"
        /\ op' = procedure
        /\ names' = << >>
        /\ changed' = << >>
        /\ boot_ts' = 0
        /\ UNCHANGED <<now, bootInstant, charm_config, host>>

UpdateGrubFile == Run("update_grub_file", update_grub_file)
UpdateSystemdSystemFile == Run("update_systemd_system_file", update_systemd_system_file)
InstallConfiguredKernel == Run("install_configured_kernel", install_configured_kernel)
UpdateCpufreq == Run("update_cpufreq", update_cpufreq)
RemoveGrubConfiguration == Run("remove_grub_configuration", remove_grub_configuration)
RemoveSystemdConfiguration == Run("remove_systemd_configuration", remove_systemd_configuration)
RemoveCpufreqConfiguration == Run("remove_cpufreq_configuration", remove_cpufreq_configuration)

\* the operator changes an option of the charm's configuration
ConfigChanged ==
    \E k \in Knobs : \E v \in KnobValues(k) \ {charm_config[k]} :
        /\ Cardinality(OptionsSet([charm_config EXCEPT ![k] = v])) <= MaxOptions
        /\ charm_config' = [charm_config EXCEPT ![k] = v]
        /\ op' = "config_changed"
        /\ names' = << >>
        /\ changed' = << >>
        /\ boot_ts' = 0
        /\ trace' = << >>
        /\ outcome' = "returned"
        /\ UNCHANGED <<now, bootInstant, tracker, host, files, installed>>

\* the host reboots into any of its kernels
RebootIntoAny == \E k \in Kernels : RebootInto(k)

(***************************************************************************)
(* Initial states of the hosts the procedures are run on                   *)
(***************************************************************************)
InitHost(containers, codenames) ==
    /\ bootInstant = 0
    /\ now = UptimeGranule
    /\ db = [k \in {} |-> 0]
    /\ recorded = NoHistory
    /\ op = "none"
    /\ names = << >>
    /\ boot_ts = 0
    /\ changed = << >>
    /\ charm_config = DefaultConfig
    /\ running = KERNEL_OLD
    /\ is_container \in containers
    /\ codename \in codenames
    /\ files = {SYSTEMD_SYSTEM}
    /\ installed = {}
    /\ trace = << >>
    /\ outcome = "returned"

\* the kernel procedure
NextKernel == Tick \/ RebootIntoAny \/ ConfigChanged \/ InstallConfiguredKernel

SpecKernel == InitHost({FALSE}, {"bionic"}) /\ [][NextKernel]_vars

\* the grub procedures
NextGrub ==
    Tick \/ RebootIntoAny \/ ConfigChanged \/ UpdateGrubFile \/ RemoveGrubConfiguration

SpecGrub == InitHost(BOOLEAN, {"bionic"}) /\ [][NextGrub]_vars

\* the cpufrequtils procedures
NextCpufreq ==
    Tick \/ Reboot \/ ConfigChanged \/ UpdateCpufreq \/ RemoveCpufreqConfiguration

SpecCpufreq == InitHost(BOOLEAN, {"xenial", "bionic"}) /\ [][NextCpufreq]_vars

\* all procedures, on a legacy host outside a container, under the default
\* configuration or under one that makes every procedure act
BusyConfig ==
    [DefaultConfig EXCEPT !["kernel-version"] = KERNEL_NEW,
                          !["update-grub"] = TRUE,
                          !["governor"] = "performance"]

InitAny ==
    /\ bootInstant = 0
    /\ now = UptimeGranule
    /\ db = [k \in {} |-> 0]
    /\ recorded = NoHistory
    /\ op = "none"
    /\ names = << >>
    /\ boot_ts = 0
    /\ changed = << >>
    /\ charm_config \in {DefaultConfig, BusyConfig}
    /\ running = KERNEL_OLD
    /\ is_container = FALSE
    /\ codename = "xenial"
    /\ files = {SYSTEMD_SYSTEM}
    /\ installed = {}
    /\ trace = << >>
    /\ outcome = "returned"

Next ==
    \/ Tick
    \/ Reboot
    \/ UpdateGrubFile
    \/ UpdateSystemdSystemFile
    \/ InstallConfiguredKernel
    \/ UpdateCpufreq
    \/ RemoveGrubConfiguration
    \/ RemoveSystemdConfiguration
    \/ RemoveCpufreqConfiguration

Spec == InitAny /\ [][Next]_vars

(***************************************************************************)
(* Properties of the procedures                                            *)
(***************************************************************************)
\* the positions of t at which the call c was made
Made(t, c) == {i \in 1..Len(t) : t[i].call = c}

\* the call with arguments argv was run by check_call in t
Ran(t, argv) == \E i \in Made(t, "check_call") : t[i].argv = argv

KernelMatches == kernel_version = "" \/ kernel_version = running_kernel

KernelPackages ==
    <<"linux-image-" \o kernel_version, "linux-modules-extra-" \o kernel_version>>

\* C5: when the configured kernel version is the running release, or none is
\* configured, install_configured_kernel calls neither apt_update nor
\* apt_install and leaves every record of the tracker as it was.
C5_KernelNoOp ==
    [][(op' = "install_configured_kernel" /\ KernelMatches) =>
            /\ Made(trace', "apt_update") = {}
            /\ Made(trace', "apt_install") = {}
            /\ installed' = installed
            /\ db' = db]_vars

\* install_configured_kernel did nothing on a host that runs the configured
\* kernel and has a kernel record from before
C5_Witness ==
    /\ op = "install_configured_kernel"
    /\ kernel_version = running_kernel
    /\ KERNEL \in DOMAIN recorded
    /\ recorded[KERNEL] < now
    /\ trace = << >>

\* C6: when a kernel version is configured and differs from the running
\* release, install_configured_kernel asks apt_install for the image and the
\* modules-extra package of that version, registers the kernel resource only
\* after apt_install has completed, and once it has returned the kernel
\* resource is reported as changed since boot until the next reboot.
C6_KernelMismatch ==
    (op = "install_configured_kernel" /\ ~KernelMatches) =>
        /\ \A i \in Made(trace, "apt_install") : trace[i].argv = KernelPackages
        /\ \A i \in Made(trace, "set_resource") :
              \E j \in Made(trace, "apt_install") : j < i /\ trace[j].ok
        /\ outcome = "returned" =>
              /\ Made(trace, "apt_install") # {}
              /\ KernelPackages[1] \in installed
              /\ KernelPackages[2] \in installed
              /\ trace[Len(trace)] = record(KERNEL)
              /\ resources_changed_since_boot(<<KERNEL>>) = <<KERNEL>>

\* install_configured_kernel installed both packages of the configured
\* version and the clock has advanced since
C6_Witness ==
    /\ op = "install_configured_kernel"
    /\ outcome = "returned"
    /\ kernel_version = KERNEL_NEW
    /\ running_kernel = KERNEL_OLD
    /\ Len(trace) = 3
    /\ recorded[KERNEL] < now
    /\ resources_changed_since_boot(<<KERNEL>>) = <<KERNEL>>

\* the context update_grub_file handed to render
Rendered == trace[1].context

\* C7: the context update_grub_file renders has a grub_default entry, naming
\* the configured kernel, exactly when a kernel version is configured and the
\* running kernel differs from it; so once the host runs the configured
\* kernel every run renders a context without grub_default.
C7_GrubPin ==
    op = "update_grub_file" =>
        /\ trace[1].call = "render"
        /\ trace[1].target = GRUB_CONF
        /\ "grub_default" \in DOMAIN Rendered <=>
              (kernel_version # "" /\ kernel_version # running_kernel)
        /\ "grub_default" \in DOMAIN Rendered =>
              Rendered["grub_default"] = GRUB_DEFAULT(kernel_version)

\* update_grub_file ran again after a reboot into the configured kernel
\* and rendered no grub_default
C7_Witness ==
    /\ op = "update_grub_file"
    /\ bootInstant > 0
    /\ kernel_version = KERNEL_NEW
    /\ running_kernel = KERNEL_NEW
    /\ GRUB_CONF \in DOMAIN recorded
    /\ "grub_default" \notin DOMAIN Rendered

\* C8: with a governor other than "", "powersave" and "performance"
\* update_cpufreq renders nothing, registers nothing, runs no ondemand
\* command and restarts no service.
C8_InvalidGovernor ==
    [][(op' = "update_cpufreq" /\ governor \notin {"", "powersave", "performance"}) =>
            /\ trace' = << >>
            /\ outcome' = "returned"
            /\ UNCHANGED <<db, recorded, files, installed>>]_vars

\* update_cpufreq returned without a call under governor eco
C8_Witness ==
    /\ op = "update_cpufreq"
    /\ governor = "eco"
    /\ trace = << >>

Procedures ==
    {"update_grub_file", "update_systemd_system_file", "install_configured_kernel",
     "update_cpufreq", "remove_grub_configuration", "remove_systemd_configuration",
     "remove_cpufreq_configuration"}

\* C9: under a configuration that is_config_valid rejects, no procedure
\* renders a file, registers a change, installs a package or runs a command.
C9_InvalidConfigNoMutation ==
    (op \in Procedures /\ ~is_config_valid) => trace = << >>

\* C10 as claimed: remove_grub_configuration with the file present deletes
\* it, registers no change for grub, and runs update-grub if update-grub is
\* enabled.
C10_RemovalUnrecorded ==
    [][(op' = "remove_grub_configuration" /\ GRUB_CONF \in files) =>
            /\ GRUB_CONF \notin files'
            /\ db' = db
            /\ update_grub => Ran(trace', UPDATE_GRUB)]_vars

\* C10 amended: remove_grub_configuration with the file present deletes it,
\* runs update-grub exactly when update-grub is enabled and the host is not a
\* container, and, unless that command fails, registers a change for the
\* grub file at the time of the removal.
C10_RemovalRecorded ==
    [][(op' = "remove_grub_configuration" /\ GRUB_CONF \in files) =>
            /\ trace'[1] = os_remove(GRUB_CONF)
            /\ GRUB_CONF \notin files'
            /\ Ran(trace', UPDATE_GRUB) <=> (update_grub /\ ~is_container)
            /\ outcome' = "returned" =>
                  /\ trace'[Len(trace')] = record(GRUB_CONF)
                  /\ get_resource_changed_timestamp(GRUB_CONF)' = now]_vars

\* remove_grub_configuration deleted the file, ran update-grub and then
\* registered the change
C10_Witness ==
    /\ op = "remove_grub_configuration"
    /\ outcome = "returned"
    /\ update_grub
    /\ Len(trace) = 3
    /\ trace[2] = check_call(UPDATE_GRUB)
    /\ GRUB_CONF \notin files

\* the resource a procedure registers
ResourceOf(procedure) ==
    CASE procedure \in {"update_grub_file", "remove_grub_configuration"} -> GRUB_CONF
      [] procedure \in {"update_systemd_system_file", "remove_systemd_configuration"} ->
            SYSTEMD_SYSTEM
      [] procedure \in {"update_cpufreq", "remove_cpufreq_configuration"} -> CPUFREQUTILS
      [] procedure = "install_configured_kernel" -> KERNEL

Removals ==
    {"remove_grub_configuration", "remove_systemd_configuration",
     "remove_cpufreq_configuration"}

\* resources_changed_since_boot reports the resource d
Reported(d) == resources_changed_since_boot(<<d>>) = <<d>>

\* C11: when a removal procedure that removes something (grub removal with
\* the file present, systemd removal, cpufreq removal) has returned, the
\* record of its resource is the time of the removal, and the resource is
\* reported as changed since boot until the next reboot.
C11_RemovalIsAChange ==
    [][(op' \in Removals /\ outcome' = "returned" /\ trace' # << >>) =>
            /\ now' = now => get_resource_changed_timestamp(ResourceOf(op))' = now
            /\ Reported(ResourceOf(op))']_vars

\* the grub file was removed after the systemd and cpufrequtils
\* configurations, at a later clock reading, and all three are reported
C11_Witness ==
    /\ op = "remove_grub_configuration"
    /\ outcome = "returned"
    /\ trace # << >>
    /\ DOMAIN recorded = {GRUB_CONF, SYSTEMD_SYSTEM, CPUFREQUTILS}
    /\ recorded[SYSTEMD_SYSTEM] < recorded[GRUB_CONF]
    /\ Reported(GRUB_CONF) /\ Reported(SYSTEMD_SYSTEM) /\ Reported(CPUFREQUTILS)

\* C12: remove_grub_configuration with the file absent deletes nothing, does
\* not run update-grub even when it is enabled outside a container, registers
\* nothing and returns; however often it runs, the state stays as it was.
C12_RemovalOfAbsentFile ==
    [][(op' = "remove_grub_configuration" /\ now' = now /\ GRUB_CONF \notin files) =>
            /\ trace' = << >>
            /\ outcome' = "returned"
            /\ UNCHANGED <<tracker, files, installed, charm_config, host>>]_vars

\* remove_grub_configuration found no file, with update-grub enabled outside
\* a container and a record of the grub file from before
C12_Witness ==
    /\ op = "remove_grub_configuration"
    /\ trace = << >>
    /\ update_grub /\ ~is_container
    /\ GRUB_CONF \notin files
    /\ GRUB_CONF \in DOMAIN recorded

\* the host has the legacy ondemand initscript to toggle
Legacy == codename = "xenial" /\ ~is_container

\* the render of the last procedure was its first call and completed
RenderCompleted == trace # << >> /\ trace[1].call = "render" /\ trace[1].ok

\* C13: for a valid governor, update_cpufreq (once its render has completed)
\* runs the ondemand remove command exactly when the codename is xenial, the
\* host is not a container and the governor is not empty, and the ondemand
\* defaults command exactly when the codename is xenial, the host is not a
\* container and the governor is empty; which non-empty governor is set
\* makes no difference, and elsewhere neither command is run.
C13_OndemandToggle ==
    (op = "update_cpufreq" /\ governor \in {"", "powersave", "performance"}) =>
        /\ Ran(trace, ONDEMAND_REMOVE) <=> (RenderCompleted /\ Legacy /\ governor # "")
        /\ Ran(trace, ONDEMAND_DEFAULTS) <=> (RenderCompleted /\ Legacy /\ governor = "")
        /\ outcome = "returned" => RenderCompleted

\* update_cpufreq disabled ondemand for the powersave governor on a legacy
\* host
C13_Witness ==
    /\ op = "update_cpufreq"
    /\ outcome = "returned"
    /\ governor = "powersave"
    /\ Legacy
    /\ Ran(trace, ONDEMAND_REMOVE)
    /\ ~Ran(trace, ONDEMAND_DEFAULTS)

\* C14: update_grub_file (once its render has completed) and
\* remove_grub_configuration (when the file was there) run update-grub
\* exactly when update-grub is enabled and the host is not a container; in a
\* container it is never run; in update_grub_file it is run only after the
\* file has been rendered and the change registered.
C14_UpdateGrubGating ==
    /\ op = "update_grub_file" =>
          /\ Ran(trace, UPDATE_GRUB) <=> (RenderCompleted /\ update_grub /\ ~is_container)
          /\ \A i \in Made(trace, "check_call") :
                /\ i = Len(trace)
                /\ \E j \in Made(trace, "render") : j < i /\ trace[j].ok
                /\ \E j \in Made(trace, "set_resource") :
                      j < i /\ trace[j].target = GRUB_CONF
    /\ (op = "remove_grub_configuration" /\ trace # << >>) =>
          (Ran(trace, UPDATE_GRUB) <=> (update_grub /\ ~is_container))
    /\ (op \in Procedures /\ is_container) => Made(trace, "check_call") = {}

\* update_grub_file rendered, registered and then ran update-grub, after the
\* clock had advanced
C14_Witness ==
    /\ op = "update_grub_file"
    /\ outcome = "returned"
    /\ Len(trace) = 3
    /\ trace[3] = check_call(UPDATE_GRUB)
    /\ recorded[GRUB_CONF] = now
    /\ now > UptimeGranule

\* C15: two runs of update_grub_file with the same configuration and the
\* same running kernel hand render the same template, target and context,
\* whatever the tracker, the files and the clock have become in between.
C15_GrubIdempotence ==
    [][(op = "update_grub_file" /\ op' = "update_grub_file") =>
            /\ trace'[1].call = "render"
            /\ trace'[1].argv = trace[1].argv
            /\ trace'[1].target = trace[1].target
            /\ trace'[1].context = trace[1].context]_vars

\* update_grub_file ran again, with a pin in its context, on a host where an
\* earlier run had written and registered the file at an earlier clock reading
C15_Witness ==
    /\ op = "update_grub_file"
    /\ GRUB_CONF \in files
    /\ GRUB_CONF \in DOMAIN recorded
    /\ recorded[GRUB_CONF] < now
    /\ ~trace[1].ok
    /\ "grub_default" \in DOMAIN Rendered

Updates == {"update_grub_file", "update_systemd_system_file", "update_cpufreq"}

\* C16 as claimed: running an update procedure again, with the configuration
\* and the host as they were at its last run, leaves the recorded timestamp
\* of its resource as it was.
C16_RerunKeepsTimestamp ==
    [][(op \in Updates /\ op' = op /\ outcome = "returned") =>
            get_resource_changed_timestamp(ResourceOf(op))' =
                get_resource_changed_timestamp(ResourceOf(op))]_vars

\* C16 amended: every run of an update procedure whose render completes sets
\* the recorded timestamp of its resource to the time of that run, whether or
\* not anything differs from the last run, and the resource is then reported
\* as changed since boot until the next reboot.
C16_EveryRunRecords ==
    [][(op' \in Updates /\ RenderCompleted') =>
            /\ now' = now => get_resource_changed_timestamp(ResourceOf(op))' = now
            /\ Reported(ResourceOf(op))']_vars

\* after a reboot update_grub_file has run and the grub file is reported
\* again, while the systemd file, registered before the reboot, is not
C16_Witness ==
    /\ op = "update_grub_file"
    /\ outcome = "returned"
    /\ bootInstant > 0
    /\ Reported(GRUB_CONF)
    /\ SYSTEMD_SYSTEM \in DOMAIN recorded
    /\ ~Reported(SYSTEMD_SYSTEM)

\* the call of t that raised
Raising(t) == t[Len(t)]

\* C17: when a call of a procedure raises, it is the last call the procedure
\* makes, and what the earlier calls did stays: rendered files exist, removed
\* files are gone, and the record of the resource is the time of the run if
\* the record step came before the failure and is untouched if it did not.
\* So a failing update-grub in update_grub_file, and a failing ondemand
\* command or service restart in update_cpufreq, leave the file written and
\* the record set, while a failing update-grub in remove_grub_configuration
\* leaves the file removed and the record as it was.
C17_NoRollback ==
    [][(op' \in Procedures /\ now' = now /\ outcome' = "raised") =>
            /\ ~Raising(trace').ok
            /\ \A i \in 1..(Len(trace') - 1) : trace'[i].ok
            /\ \A i \in Made(trace', "render") :
                  trace'[i].ok => trace'[i].target \in files'
            /\ \A i \in Made(trace', "os.remove") : trace'[i].target \notin files'
            /\ \A i \in Made(trace', "set_resource") :
                  get_resource_changed_timestamp(trace[i].target)' = now
            /\ Made(trace', "set_resource") = {} => db' = db
            /\ (op' = "update_grub_file" /\ Raising(trace').call = "check_call") =>
                  /\ GRUB_CONF \in files'
                  /\ get_resource_changed_timestamp(GRUB_CONF)' = now
            /\ (op' = "update_cpufreq"
                  /\ Raising(trace').call \in {"check_call", "service_restart"}) =>
                  /\ CPUFREQUTILS \in files'
                  /\ get_resource_changed_timestamp(CPUFREQUTILS)' = now
            /\ (op' = "remove_grub_configuration") =>
                  /\ GRUB_CONF \notin files'
                  /\ db' = db]_vars

\* update-grub failed in update_grub_file after the file had been rendered
\* and the change registered
C17_Witness ==
    /\ op = "update_grub_file"
    /\ outcome = "raised"
    /\ Len(trace) = 3
    /\ Raising(trace) = [check_call(UPDATE_GRUB) EXCEPT !.ok = FALSE]
    /\ GRUB_CONF \in files
    /\ recorded[GRUB_CONF] = now

\* C18: a procedure changes the recorded timestamp of no resource but its
\* own, a reboot changes none, no step removes a record, and in every state
\* set_resource(d) would leave the record of every other resource as it is,
\* present or absent.
C18_OneResourceOneEntry ==
    [][/\ \A d \in ResourceNames :
             key_for(d) \in DOMAIN db => key_for(d) \in DOMAIN db'
       /\ op' \in Procedures =>
             \A d \in ResourceNames \ {ResourceOf(op')} :
                 get_resource_changed_timestamp(d)' = get_resource_changed_timestamp(d)
       /\ op' \notin Procedures =>
             \A d \in ResourceNames :
                 get_resource_changed_timestamp(d)' = get_resource_changed_timestamp(d)
       /\ \A d \in ResourceNames :
             LET store == set_resource(db, d)
                 others == {key_for(e) : e \in ResourceNames \ {d}}
             IN  /\ key_for(d) \in DOMAIN store \ others
                 /\ DOMAIN store \cap others = DOMAIN db \cap others
                 /\ \A k \in DOMAIN db \cap others : store[k] = db[k]
      ]_vars

\* install_configured_kernel has registered the kernel while the three files
\* keep the records of earlier clock readings
C18_Witness ==
    /\ op = "install_configured_kernel"
    /\ outcome = "returned"
    /\ DOMAIN recorded = ResourceNames
    /\ get_resource_changed_timestamp(KERNEL) = now
    /\ \A d \in ResourceNames \ {KERNEL} : get_resource_changed_timestamp(d) < now

\* no resource has been registered since the host booted
NothingRecordedSinceBoot == \A d \in DOMAIN recorded : recorded[d] <= bootInstant

\* C19: while nothing has been registered since the last boot,
\* resources_changed_since_boot returns the empty list for every list of
\* names; and a resource that is reported stays reported across every step
\* but a reboot, whichever procedure the step runs.
C19_RebootClears ==
    [][/\ NothingRecordedSinceBoot =>
             /\ \A d \in ResourceNames : ~Reported(d)
             /\ \A l \in NameLists : resources_changed_since_boot(l) = << >>
       /\ \A d \in ResourceNames :
             (Reported(d) /\ ~Reported(d)') =>
                 (op' = "reboot" /\ bootInstant' = now /\ NothingRecordedSinceBoot')
      ]_vars

\* after a reboot: the kernel, registered at the instant the host went down,
\* is not reported; the grub file, registered since, is still reported after
\* the clock has advanced and another procedure has run
C19_Witness ==
    /\ bootInstant > 0
    /\ KERNEL \in DOMAIN recorded
    /\ recorded[KERNEL] = bootInstant
    /\ ~Reported(KERNEL)
    /\ GRUB_CONF \in DOMAIN recorded
    /\ bootInstant < recorded[GRUB_CONF]
    /\ recorded[GRUB_CONF] < now
    /\ Reported(GRUB_CONF)
    /\ op \in Procedures
    /\ ResourceOf(op) \notin {GRUB_CONF, KERNEL}

====
